---- MODULE Spec2Model ----
(***************************************************************************)
(* The dialogue controller of the fish-market bot (src/main.py) and the    *)
(* API client it calls (src/starapi.py), as a state machine.               *)
(*                                                                         *)
(* One turn is handle_users_reply run on one update.  It is split at its   *)
(* await points into three steps: state resolution (the store read), the   *)
(* dispatched state handler, and the store write (or the catch-all).       *)
(* Every external call (API, store, chat transport) may succeed or fail;   *)
(* the outcomes are chosen nondeterministically and logged in the turn.    *)
(***************************************************************************)
EXTENDS Naturals, Sequences, FiniteSets, TLC

(* ------------------------------ bounds -------------------------------- *)
NumChats == 2
MaxQueue == 1
NumSlots == 2

Chats == 1..NumChats
Slots == 1..NumSlots

(* --------------------------- program constants ------------------------ *)
START == "START"
HANDLE_MENU == "HANDLE_MENU"
HANDLE_DESCRIPTION == "HANDLE_DESCRIPTION"
HANDLE_CART == "HANDLE_CART"
WAITING_EMAIL == "WAITING_EMAIL"

BotState == {START, HANDLE_MENU, HANDLE_DESCRIPTION, HANDLE_CART, WAITING_EMAIL}

\* Python's None: an absent store entry, a handler that returned nothing.
None == "None"

\* (variant) the application built with concurrent_updates(True)
concurrent_updates_on == NumSlots

\* Application.builder() is built without concurrent_updates(...): the
\* library default processes one update at a time.
max_concurrent_updates == 1

(* ------------------------------ strings ------------------------------- *)
Ch(s, i) == SubSeq(s, i, i)

Whitespace == {" ", "\t", "\n", "\r", "\f"}

Alnum ==
  {"a","b","c","d","e","f","g","h","i","j","k","l","m","n","o","p","q","r","s",
   "t","u","v","w","x","y","z",
   "A","B","C","D","E","F","G","H","I","J","K","L","M","N","O","P","Q","R","S",
   "T","U","V","W","X","Y","Z",
   "0","1","2","3","4","5","6","7","8","9"}

\* str.startswith
startswith(s, prefix) ==
  /\ Len(s) >= Len(prefix)
  /\ SubSeq(s, 1, Len(prefix)) = prefix

\* str.strip(): drop leading and trailing whitespace
strip(s) ==
  LET keep == {i \in 1..Len(s) : Ch(s, i) \notin Whitespace}
  IN  IF keep = {} THEN ""
      ELSE LET lo == CHOOSE i \in keep : \A j \in keep : i <= j
               hi == CHOOSE i \in keep : \A j \in keep : j <= i
           IN  SubSeq(s, lo, hi)

\* (variant) the last part of the pattern is [^@\s]+ like the others
FullMatchEmail_loose_tld(s) ==
  \E at \in 2..Len(s), dot \in 4..Len(s) :
     /\ at + 1 < dot
     /\ dot < Len(s)
     /\ Ch(s, at) = "@"
     /\ Ch(s, dot) = "."
     /\ \A i \in 1..(at - 1) : Ch(s, i) \notin (Whitespace \cup {"@"})
     /\ \A i \in (at + 1)..(dot - 1) : Ch(s, i) \notin (Whitespace \cup {"@"})
     /\ \A i \in (dot + 1)..Len(s) : Ch(s, i) \notin (Whitespace \cup {"@"})

\* re.match(r"^[^@\s]+@[^@\s]+\.[a-zA-Z0-9]+$", s) is not None.
\* "$" matches at the end of the string and before one final newline.
FullMatchEmail(s) ==
  \E at \in 2..Len(s), dot \in 4..Len(s) :
     /\ at + 1 < dot
     /\ dot < Len(s)
     /\ Ch(s, at) = "@"
     /\ Ch(s, dot) = "."
     /\ \A i \in 1..(at - 1) : Ch(s, i) \notin (Whitespace \cup {"@"})
     /\ \A i \in (at + 1)..(dot - 1) : Ch(s, i) \notin (Whitespace \cup {"@"})
     /\ \A i \in (dot + 1)..Len(s) : Ch(s, i) \in Alnum

re_match_email(s) ==
  \/ FullMatchEmail(s)
  \/ /\ Len(s) >= 1
     /\ Ch(s, Len(s)) = "\n"
     /\ FullMatchEmail(SubSeq(s, 1, Len(s) - 1))

(* ------------------------------- events ------------------------------- *)
\* The three update kinds the registered handlers pass to handle_users_reply:
\* a text message (update.message), a button press (update.callback_query),
\* and an edited text message (neither attribute is set).
Kinds == {"message", "callback_query", "edited_message"}

MessageTexts ==
  {"/start", "a@b.c", "a@b", " ", "back_to_menu", "my_cart", "remove_item:i1", "pay"}

CallbackData ==
  {"p1", "add_to_cart:p1", "my_cart", "back_to_menu", "remove_item:i1", "pay"}

Texts(kind) ==
  IF kind = "message" THEN MessageTexts
  ELSE IF kind = "callback_query" THEN CallbackData
  ELSE {"a@b.c"}

(* ------------------------------ call log ------------------------------ *)
Call(op, res) == [op |-> op, res |-> res]

Failed(call) == call.res \in {"error", "not_found"}

Made(calls, op) == {i \in 1..Len(calls) : calls[i].op = op}

MadeOk(calls, op) == {i \in 1..Len(calls) : calls[i].op = op /\ calls[i].res = "ok"}

OkErr(b) == IF b THEN "ok" ELSE "error"

(* ------------------------------- state -------------------------------- *)
VARIABLES
  store,   \* the Redis map: chat id -> stored state name, or None
  queue,   \* chats with an update waiting in the application's update queue
  turns,   \* per processing slot: the turn in progress or the last one finished
  carts,   \* the backend: number of carts filed under each chat id
  flow,    \* per chat: progress through the linear shopping scenario
  paid,    \* per chat: whether a "pay" event came since its last customer submission
  probe    \* a pure function under test: its input and, once applied, its result

vars == <<store, queue, turns, carts, flow, paid, probe>>

\* the controller runs without any function under test
NoProbe == [fn |-> "none"]

Idle ==
  [chat |-> 0, kind |-> "", text |-> "", forced |-> FALSE, user_state |-> None,
   before |-> None, pc |-> "idle", handler |-> "", ret |-> None, calls |-> <<>>,
   outcome |-> ""]

Busy(s) == turns[s].pc \in {"resolved", "returned", "raised"}

FreeSlot == CHOOSE s \in Slots : ~Busy(s) /\ \A t \in Slots : ~Busy(t) => s <= t


(* ------------------------- state resolution --------------------------- *)
\* handle_users_reply, the if/elif chain: the state an event forces, or None
\* when the state comes from the store.
ForcedState(user_reply) ==
  IF user_reply = "/start" THEN START
  ELSE IF user_reply = "back_to_menu" THEN HANDLE_DESCRIPTION
  ELSE IF user_reply = "my_cart" THEN HANDLE_CART
  ELSE IF startswith(user_reply, "remove_item:") THEN HANDLE_CART
  ELSE IF user_reply = "pay" THEN WAITING_EMAIL
  ELSE None

\* the else branch: an absent entry is START, a present one is decoded
DecodeStored(stored) == IF stored = None THEN START ELSE stored

\* (variant) every chat's state is filed under one fixed key
StoreKeyShared(chat_id) == 1

\* the key of a chat's entry in the store: str(chat_id)
StoreKey(chat_id) == chat_id

\* (variant) post_init registers the product-view handler for HANDLE_CART
states_miswired ==
  [st \in BotState |->
     IF st = START THEN "start"
     ELSE IF st = HANDLE_MENU THEN "handle_menu"
     ELSE IF st = HANDLE_DESCRIPTION THEN "handle_description"
     ELSE IF st = HANDLE_CART THEN "handle_description"
     ELSE "handle_email"]

\* context.bot_data["states"], filled by post_init
states ==
  [st \in BotState |->
     IF st = START THEN "start"
     ELSE IF st = HANDLE_MENU THEN "handle_menu"
     ELSE IF st = HANDLE_DESCRIPTION THEN "handle_description"
     ELSE IF st = HANDLE_CART THEN "handle_cart"
     ELSE "handle_email"]

(* ----------------------------- handlers ------------------------------- *)
\* What a handler run yields: it returned a next state or raised, the
\* external calls it made, and whether it created a cart at the backend.
Returned(st, calls, created) ==
  [pc |-> "returned", ret |-> st, calls |-> calls, created |-> created]

Raised(calls, created) ==
  [pc |-> "raised", ret |-> None, calls |-> calls, created |-> created]

FirstFailure(calls) ==
  CHOOSE i \in 1..Len(calls) : Failed(calls[i]) /\ \A j \in 1..(i - 1) : ~Failed(calls[j])

AnyFailed(calls) == \E i \in 1..Len(calls) : Failed(calls[i])

\* the calls of a straight-line block actually made: it stops at the first
\* one that raises
UpToFailure(calls) ==
  IF AnyFailed(calls) THEN SubSeq(calls, 1, FirstFailure(calls)) ELSE calls

\* get_products: any failure is swallowed and yields []
ProductsResults == {"nonempty", "empty", "error"}

NoProducts(res) == res \in {"empty", "error"}

\* (variant) a failed catalog request is not told apart from a catalog
start_ignores_empty(update, o) ==
  LET fetched == <<Call("get_products", o.products)>>
  IN  IF update.kind # "message"
        THEN Raised(fetched, FALSE)
      ELSE IF o.reply_ok
        THEN Returned(IF o.products = "empty" THEN START ELSE HANDLE_MENU,
                      fetched \o <<Call("reply_text", "ok")>>, FALSE)
      ELSE Raised(fetched \o <<Call("reply_text", "error")>>, FALSE)

StartOutcomes == [products : ProductsResults, reply_ok : BOOLEAN]

\* (variant) the reply goes to the chat of the update, whatever its kind
start_replies_to_any_kind(update, o) ==
  LET fetched == <<Call("get_products", o.products)>>
      next == IF NoProducts(o.products) THEN START ELSE HANDLE_MENU
  IN  IF o.reply_ok
        THEN Returned(next, fetched \o <<Call("reply_text", "ok")>>, FALSE)
      ELSE Raised(fetched \o <<Call("reply_text", "error")>>, FALSE)

start(update, o) ==
  LET fetched == <<Call("get_products", o.products)>>
      next == IF NoProducts(o.products) THEN START ELSE HANDLE_MENU
  IN  IF update.kind # "message"
        THEN Raised(fetched, FALSE)               \* update.message is None
      ELSE IF o.reply_ok
        THEN Returned(next, fetched \o <<Call("reply_text", "ok")>>, FALSE)
      ELSE Raised(fetched \o <<Call("reply_text", "error")>>, FALSE)

MenuOutcomes ==
  [answer_ok : BOOLEAN, product : {"ok", "not_found", "error"}, picture : BOOLEAN,
   download_ok : BOOLEAN, send_ok : BOOLEAN, delete_ok : BOOLEAN, edit_ok : BOOLEAN]

\* (variant) the except clause falls through to the product view
handle_menu_falls_through(update, o) ==
  LET body ==
        <<Call("get_product", o.product)>>
        \o (IF o.picture
              THEN <<Call("download_image", OkErr(o.download_ok)),
                     Call("send_photo", OkErr(o.send_ok))>>
              ELSE <<Call("send_message", OkErr(o.send_ok))>>)
        \o <<Call("delete_message", OkErr(o.delete_ok))>>
      tried == <<Call("answer", "ok")>> \o UpToFailure(body)
  IN  IF update.kind # "callback_query"
        THEN Raised(<<>>, FALSE)
      ELSE IF ~o.answer_ok
        THEN Raised(<<Call("answer", "error")>>, FALSE)
      ELSE IF ~AnyFailed(body)
        THEN Returned(HANDLE_DESCRIPTION, tried, FALSE)
      ELSE IF o.edit_ok
        THEN Returned(HANDLE_DESCRIPTION,
                      tried \o <<Call("edit_message_text", "ok")>>, FALSE)
      ELSE Raised(tried \o <<Call("edit_message_text", "error")>>, FALSE)

handle_menu(update, o) ==
  LET body ==
        <<Call("get_product", o.product)>>
        \o (IF o.picture
              THEN <<Call("download_image", OkErr(o.download_ok)),
                     Call("send_photo", OkErr(o.send_ok))>>
              ELSE <<Call("send_message", OkErr(o.send_ok))>>)
        \o <<Call("delete_message", OkErr(o.delete_ok))>>
      tried == <<Call("answer", "ok")>> \o UpToFailure(body)
  IN  IF update.kind # "callback_query"
        THEN Raised(<<>>, FALSE)                  \* update.callback_query is None
      ELSE IF ~o.answer_ok
        THEN Raised(<<Call("answer", "error")>>, FALSE)
      ELSE IF ~AnyFailed(body)
        THEN Returned(HANDLE_DESCRIPTION, tried, FALSE)
      ELSE IF o.edit_ok
        THEN Returned(HANDLE_MENU, tried \o <<Call("edit_message_text", "ok")>>, FALSE)
      ELSE Raised(tried \o <<Call("edit_message_text", "error")>>, FALSE)

DescriptionOutcomes ==
  [lookup_ok : BOOLEAN, create : {"ok", "error", "lost"}, post_ok : BOOLEAN,
   answer_ok : BOOLEAN, answer2_ok : BOOLEAN, products : ProductsResults,
   send_ok : BOOLEAN, delete_ok : BOOLEAN]

\* create_cart: POST /api/carts, then the status check and the reading of
\* the answer.  "lost" is a cart the backend made whose answer then failed
\* to arrive or to be read: the call raises as on "error".
create_cart(o) ==
  [res |-> IF o.create = "ok" THEN "ok" ELSE "error",
   created |-> o.create # "error"]

\* (variant) the cart is created whenever the lookup answers, found or not
ensure_cart_always_creates(ncarts, o) ==
  LET lookup == IF ~o.lookup_ok THEN "error"
                ELSE IF ncarts = 0 THEN "absent" ELSE "found"
      create == lookup # "error"
      made == create_cart(o)
  IN  [calls |-> <<Call("get_cart_by_telegram_id", lookup)>>
                 \o (IF create THEN <<Call("create_cart", made.res)>> ELSE <<>>),
       ok |-> create /\ made.res = "ok",
       created |-> create /\ made.created]

\* ensure_cart: look the cart up by chat id, create it when there is none
ensure_cart(ncarts, o) ==
  LET lookup == IF ~o.lookup_ok THEN "error"
                ELSE IF ncarts = 0 THEN "absent" ELSE "found"
      create == lookup = "absent"
      made == create_cart(o)
  IN  [calls |-> <<Call("get_cart_by_telegram_id", lookup)>>
                 \o (IF create THEN <<Call("create_cart", made.res)>> ELSE <<>>),
       ok |-> lookup = "found" \/ (create /\ made.res = "ok"),
       created |-> create /\ made.created]

add_product_to_cart(ncarts, o) ==
  LET cart == ensure_cart(ncarts, o)
      ok == cart.ok /\ o.post_ok
  IN  [calls |-> cart.calls
                 \o (IF cart.ok THEN <<Call("post_cart_item", OkErr(o.post_ok))>> ELSE <<>>)
                 \o <<Call("add_product_to_cart", OkErr(ok))>>,
       ok |-> ok,
       created |-> cart.created]

\* (variant) a failed add sends the chat back to the menu
handle_description_leaves_on_failed_add(update, o, ncarts) ==
  LET add == add_product_to_cart(ncarts, o)
      fetched == <<Call("get_products", o.products)>>
      relist == <<Call("send_message", OkErr(o.send_ok)),
                  Call("delete_message", OkErr(o.delete_ok))>>
  IN  IF update.kind # "callback_query"
        THEN Raised(<<>>, FALSE)                  \* update.callback_query is None
      ELSE IF startswith(update.text, "add_to_cart:")
        THEN IF add.ok /\ o.answer_ok
               THEN Returned(HANDLE_DESCRIPTION,
                             add.calls \o <<Call("answer_added", "ok")>>, add.created)
             ELSE LET first == IF add.ok THEN <<Call("answer_added", "error")>> ELSE <<>>
                  IN  IF o.answer2_ok
                        THEN Returned(HANDLE_MENU,
                                      add.calls \o first \o <<Call("answer_failed", "ok")>>,
                                      add.created)
                      ELSE Raised(add.calls \o first \o <<Call("answer_failed", "error")>>,
                                  add.created)
      ELSE IF NoProducts(o.products)
        THEN IF o.answer_ok
               THEN Returned(HANDLE_MENU, fetched \o <<Call("answer", "ok")>>, FALSE)
             ELSE Raised(fetched \o <<Call("answer", "error")>>, FALSE)
      ELSE IF ~AnyFailed(relist)
        THEN Returned(HANDLE_MENU, fetched \o relist, FALSE)
      ELSE Raised(fetched \o UpToFailure(relist), FALSE)

handle_description(update, o, ncarts) ==
  LET add == add_product_to_cart(ncarts, o)
      fetched == <<Call("get_products", o.products)>>
      relist == <<Call("send_message", OkErr(o.send_ok)),
                  Call("delete_message", OkErr(o.delete_ok))>>
  IN  IF update.kind # "callback_query"
        THEN Raised(<<>>, FALSE)                  \* update.callback_query is None
      ELSE IF startswith(update.text, "add_to_cart:")
        THEN IF add.ok /\ o.answer_ok
               THEN Returned(HANDLE_DESCRIPTION,
                             add.calls \o <<Call("answer_added", "ok")>>, add.created)
             ELSE LET first == IF add.ok THEN <<Call("answer_added", "error")>> ELSE <<>>
                  IN  IF o.answer2_ok
                        THEN Returned(HANDLE_DESCRIPTION,
                                      add.calls \o first \o <<Call("answer_failed", "ok")>>,
                                      add.created)
                      ELSE Raised(add.calls \o first \o <<Call("answer_failed", "error")>>,
                                  add.created)
      ELSE IF NoProducts(o.products)
        THEN IF o.answer_ok
               THEN Returned(HANDLE_MENU, fetched \o <<Call("answer", "ok")>>, FALSE)
             ELSE Raised(fetched \o <<Call("answer", "error")>>, FALSE)
      ELSE IF ~AnyFailed(relist)
        THEN Returned(HANDLE_MENU, fetched \o relist, FALSE)
      ELSE Raised(fetched \o UpToFailure(relist), FALSE)

CartOutcomes ==
  [delete_item_ok : BOOLEAN, answer_ok : BOOLEAN, answer2_ok : BOOLEAN,
   items_ok : BOOLEAN, send_ok : BOOLEAN, delete_ok : BOOLEAN]

\* (variant) a cart that cannot be loaded sends the chat back to the menu
handle_cart_leaves_on_error(update, o) ==
  LET removal ==
        IF ~startswith(update.text, "remove_item:") THEN <<>>
        ELSE IF o.delete_item_ok /\ o.answer_ok
          THEN <<Call("delete_cart_item", "ok"), Call("answer_deleted", "ok")>>
        ELSE (IF o.delete_item_ok
                THEN <<Call("delete_cart_item", "ok"), Call("answer_deleted", "error")>>
                ELSE <<Call("delete_cart_item", "error")>>)
             \o <<Call("answer_failed", OkErr(o.answer2_ok))>>
      removal_raised ==
        /\ startswith(update.text, "remove_item:")
        /\ ~(o.delete_item_ok /\ o.answer_ok)
        /\ ~o.answer2_ok
      shown == removal \o <<Call("get_cart_items", OkErr(o.items_ok)),
                            Call("send_message", OkErr(o.send_ok))>>
  IN  IF update.kind # "callback_query"
        THEN Raised(<<>>, FALSE)
      ELSE IF update.text = "pay"
        THEN LET prompt == <<Call("answer", OkErr(o.answer_ok)),
                             Call("send_message", OkErr(o.send_ok))>>
             IN  IF AnyFailed(prompt) THEN Raised(UpToFailure(prompt), FALSE)
                 ELSE Returned(WAITING_EMAIL, prompt, FALSE)
      ELSE IF removal_raised
        THEN Raised(removal, FALSE)
      ELSE IF ~o.send_ok
        THEN Raised(shown, FALSE)
      ELSE Returned(IF o.items_ok THEN HANDLE_CART ELSE HANDLE_MENU,
                    shown \o <<Call("delete_message", OkErr(o.delete_ok))>>, FALSE)

handle_cart(update, o) ==
  LET removal ==
        IF ~startswith(update.text, "remove_item:") THEN <<>>
        ELSE IF o.delete_item_ok /\ o.answer_ok
          THEN <<Call("delete_cart_item", "ok"), Call("answer_deleted", "ok")>>
        ELSE (IF o.delete_item_ok
                THEN <<Call("delete_cart_item", "ok"), Call("answer_deleted", "error")>>
                ELSE <<Call("delete_cart_item", "error")>>)
             \o <<Call("answer_failed", OkErr(o.answer2_ok))>>
      removal_raised ==
        /\ startswith(update.text, "remove_item:")
        /\ ~(o.delete_item_ok /\ o.answer_ok)
        /\ ~o.answer2_ok
      shown == removal \o <<Call("get_cart_items", OkErr(o.items_ok)),
                            Call("send_message", OkErr(o.send_ok))>>
  IN  IF update.kind # "callback_query"
        THEN Raised(<<>>, FALSE)                  \* update.callback_query is None
      ELSE IF update.text = "pay"
        THEN LET prompt == <<Call("answer", OkErr(o.answer_ok)),
                             Call("send_message", OkErr(o.send_ok))>>
             IN  IF AnyFailed(prompt) THEN Raised(UpToFailure(prompt), FALSE)
                 ELSE Returned(WAITING_EMAIL, prompt, FALSE)
      ELSE IF removal_raised
        THEN Raised(removal, FALSE)
      ELSE IF ~o.send_ok
        THEN Raised(shown, FALSE)
      ELSE Returned(HANDLE_CART,
                    shown \o <<Call("delete_message", OkErr(o.delete_ok))>>, FALSE)

EmailOutcomes == [customer_ok : BOOLEAN, send_ok : BOOLEAN]

\* add_customer swallows every failure of the request
add_customer(o) == <<Call("add_customer", OkErr(o.customer_ok))>>

\* (variant) a failed customer submission escapes the handler
handle_email_unswallowed(update, o) ==
  LET text == IF update.kind = "message" THEN strip(update.text) ELSE None
      reply(op) == <<Call(op, OkErr(o.send_ok))>>
  IN  IF text = None \/ text = ""
        THEN IF o.send_ok THEN Returned(WAITING_EMAIL, reply("send_prompt"), FALSE)
             ELSE Raised(reply("send_prompt"), FALSE)
      ELSE IF ~re_match_email(text)
        THEN IF o.send_ok THEN Returned(WAITING_EMAIL, reply("send_invalid"), FALSE)
             ELSE Raised(reply("send_invalid"), FALSE)
      ELSE IF ~o.customer_ok
        THEN Raised(add_customer(o), FALSE)
      ELSE IF o.send_ok
        THEN Returned(START, add_customer(o) \o reply("send_thanks"), FALSE)
      ELSE Raised(add_customer(o) \o reply("send_thanks"), FALSE)

\* (variant) the chat stays in WAITING_EMAIL after its email was taken
handle_email_stays_after_thanks(update, o) ==
  LET text == IF update.kind = "message" THEN strip(update.text) ELSE None
      reply(op) == <<Call(op, OkErr(o.send_ok))>>
  IN  IF text = None \/ text = ""
        THEN IF o.send_ok THEN Returned(WAITING_EMAIL, reply("send_prompt"), FALSE)
             ELSE Raised(reply("send_prompt"), FALSE)
      ELSE IF ~re_match_email(text)
        THEN IF o.send_ok THEN Returned(WAITING_EMAIL, reply("send_invalid"), FALSE)
             ELSE Raised(reply("send_invalid"), FALSE)
      ELSE IF o.send_ok
        THEN Returned(WAITING_EMAIL, add_customer(o) \o reply("send_thanks"), FALSE)
      ELSE Raised(add_customer(o) \o reply("send_thanks"), FALSE)

handle_email(update, o) ==
  LET text == IF update.kind = "message" THEN strip(update.text) ELSE None
      reply(op) == <<Call(op, OkErr(o.send_ok))>>
  IN  IF text = None \/ text = ""
        THEN IF o.send_ok THEN Returned(WAITING_EMAIL, reply("send_prompt"), FALSE)
             ELSE Raised(reply("send_prompt"), FALSE)
      ELSE IF ~re_match_email(text)
        THEN IF o.send_ok THEN Returned(WAITING_EMAIL, reply("send_invalid"), FALSE)
             ELSE Raised(reply("send_invalid"), FALSE)
      ELSE IF o.send_ok
        THEN Returned(START, add_customer(o) \o reply("send_thanks"), FALSE)
      ELSE Raised(add_customer(o) \o reply("send_thanks"), FALSE)


(* --------------------------- the controller --------------------------- *)
\* (variant) the stored state is consulted first and the event only when
\* the chat has no entry
resolve_state_stored_first(user_reply, stored) ==
  IF stored # None THEN stored
  ELSE IF ForcedState(user_reply) # None THEN ForcedState(user_reply)
  ELSE START

\* handle_users_reply, state resolution: forced by the event, else from the
\* stored value
resolve_state(user_reply, stored) ==
  IF ForcedState(user_reply) # None THEN ForcedState(user_reply)
  ELSE DecodeStored(stored)

\* (variant) the write sits in a finally clause: a turn whose handler raised
\* persists the resolved state
store_after_turn_finally(st, t, set_ok) ==
  IF t.pc = "returned" /\ set_ok
    THEN [st EXCEPT ![StoreKey(t.chat)] = t.ret]
  ELSE IF t.pc = "raised"
    THEN [st EXCEPT ![StoreKey(t.chat)] = t.user_state]
  ELSE st

\* (variant) the write persists the resolved state, not the handler's result
store_after_turn_resolved(st, t, set_ok) ==
  IF t.pc = "returned" /\ set_ok
    THEN [st EXCEPT ![StoreKey(t.chat)] = t.user_state]
  ELSE st

\* (variant) the write stores the member's qualified name, not its value
store_after_turn_qualified(st, t, set_ok) ==
  IF t.pc = "returned" /\ set_ok
    THEN [st EXCEPT ![StoreKey(t.chat)] = "BotState." \o t.ret]
  ELSE st

\* handle_users_reply, the try/except around the handler and the store
\* write: the store after a turn whose handler returned or raised
store_after_turn(st, t, set_ok) ==
  IF t.pc = "returned" /\ set_ok
    THEN [st EXCEPT ![StoreKey(t.chat)] = t.ret]
  ELSE st

(* ---------------------- the shopping scenario ------------------------- *)
\* History of each chat, kept for the linear-flow property only: how many
\* leading events of the scenario the chat has sent so far, every one of them
\* with all calls succeeding and a non-empty catalog, and how many add-to-cart
\* calls and customer submissions these turns made.
Scenario ==
  << [kind |-> "message", text |-> "/start"],
     [kind |-> "callback_query", text |-> "p1"],
     [kind |-> "callback_query", text |-> "add_to_cart:p1"],
     [kind |-> "callback_query", text |-> "my_cart"],
     [kind |-> "callback_query", text |-> "pay"],
     [kind |-> "message", text |-> "a@b.c"] >>

FlowOff == [on |-> FALSE, k |-> 0, adds |-> 0, subs |-> 0]

\* the value of a chat whose scenario is not followed at all
FlowUnfollowed == [on |-> FALSE, k |-> Len(Scenario) + 1, adds |-> 0, subs |-> 0]

Clean(t) ==
  /\ t.outcome = "persisted"
  /\ ~AnyFailed(t.calls)
  /\ \A i \in 1..Len(t.calls) : t.calls[i].res # "empty"

Matches(t, k) == t.kind = Scenario[k].kind /\ t.text = Scenario[k].text

FlowCount(t, k, adds, subs) ==
  [on |-> TRUE, k |-> k,
   adds |-> adds + Cardinality(Made(t.calls, "add_product_to_cart")),
   subs |-> subs + Cardinality(Made(t.calls, "add_customer"))]

\* the scenario goes on with its next event, or starts over with its first
FlowStep(f, t) ==
  IF f = FlowUnfollowed THEN f
  ELSE IF f.on /\ f.k < Len(Scenario) /\ Matches(t, f.k + 1) /\ Clean(t)
    THEN FlowCount(t, f.k + 1, f.adds, f.subs)
  ELSE IF Matches(t, 1) /\ Clean(t)
    THEN FlowCount(t, 1, 0, 0)
  ELSE FlowOff

(* ------------------------ payment and customer ------------------------ *)
\* History of each chat, kept for the pay-before-submission property only:
\*   "no"    no "pay" event since the chat's last customer submission, or ever
\*   "yes"   a "pay" event came since then
\*   "retry" the chat's last submission was made by a turn that then raised
\*   "void"  the history is not followed: a store write of the chat has
\*           failed, or the run does not follow payments at all
PaidAtResolve(p, t) ==
  IF t.kind \in {"message", "callback_query"} /\ t.text = "pay" /\ p[t.chat] # "void"
    THEN [p EXCEPT ![t.chat] = "yes"]
  ELSE p

PaidAtDispatch(p, chat_id, result) ==
  IF Made(result.calls, "add_customer") # {} /\ p[chat_id] # "void"
    THEN [p EXCEPT ![chat_id] = IF result.pc = "raised" THEN "retry" ELSE "no"]
  ELSE p

PaidAtFinish(p, t, set_ok) ==
  IF t.pc = "returned" /\ ~set_ok THEN [p EXCEPT ![t.chat] = "void"] ELSE p

(* ------------------------------ actions ------------------------------- *)
Init ==
  /\ store = [c \in Chats |-> None]
  /\ queue = <<>>
  /\ turns = [s \in Slots |-> Idle]
  /\ carts = [c \in Chats |-> 0]
  /\ flow = [c \in Chats |-> FlowOff]
  /\ paid = [c \in Chats |-> "void"]
  /\ probe = NoProbe

\* run_polling: the transport puts an update of chat c in the update queue
Deliver(c) ==
  /\ Len(queue) < MaxQueue
  /\ queue' = Append(queue, c)
  /\ UNCHANGED <<store, turns, carts, flow, paid, probe>>

\* (variant) the store is read on every turn, forced or not
resolved_turn_always_reads(chat_id, update, st, read_ok) ==
  LET base == [Idle EXCEPT !.chat = chat_id, !.kind = update.kind,
                           !.text = update.text, !.before = st[chat_id]]
  IN  IF update.kind = "edited_message"
        THEN [base EXCEPT !.pc = "end", !.outcome = "ignored"]
      ELSE IF ForcedState(update.text) # None
        THEN [base EXCEPT !.forced = TRUE, !.pc = "resolved",
                          !.calls = <<Call("redis.get", "ok")>>,
                          !.user_state = resolve_state(update.text, st[StoreKey(chat_id)])]
      ELSE IF ~read_ok
        THEN [base EXCEPT !.pc = "end", !.outcome = "read_failed",
                          !.calls = <<Call("redis.get", "error")>>]
      ELSE [base EXCEPT !.pc = "resolved",
                        !.calls = <<Call("redis.get", "ok")>>,
                        !.user_state = resolve_state(update.text, st[StoreKey(chat_id)])]

\* handle_users_reply up to the handler lookup, on an update of chat_id:
\* extract the reply, resolve the state (reading the store unless the event
\* forces it) and look the handler up.  An update that is neither a message
\* nor a button press is dropped; a failing store read ends the turn.
resolved_turn(chat_id, update, st, read_ok) ==
  LET base == [Idle EXCEPT !.chat = chat_id, !.kind = update.kind,
                           !.text = update.text, !.before = st[chat_id]]
  IN  IF update.kind = "edited_message"
        THEN [base EXCEPT !.pc = "end", !.outcome = "ignored"]
      ELSE IF ForcedState(update.text) # None
        THEN [base EXCEPT !.forced = TRUE, !.pc = "resolved",
                          !.user_state = resolve_state(update.text, st[StoreKey(chat_id)])]
      ELSE IF ~read_ok
        THEN [base EXCEPT !.pc = "end", !.outcome = "read_failed",
                          !.calls = <<Call("redis.get", "error")>>]
      ELSE [base EXCEPT !.pc = "resolved",
                        !.calls = <<Call("redis.get", "ok")>>,
                        !.user_state = resolve_state(update.text, st[StoreKey(chat_id)])]

Updates == UNION {{[kind |-> kind, text |-> text] : text \in Texts(kind)} : kind \in Kinds}

\* The application takes the next update from the queue when it may process
\* one and calls handle_users_reply on it.
Resolve ==
  /\ queue # <<>>
  /\ Cardinality({s \in Slots : Busy(s)}) < max_concurrent_updates
  /\ \E t \in {resolved_turn(Head(queue), update, store, read_ok) :
                 update \in Updates, read_ok \in BOOLEAN} :
       /\ turns' = [turns EXCEPT ![FreeSlot] = t]
       /\ queue' = Tail(queue)
       /\ flow' = IF t.pc = "end"
                    THEN [flow EXCEPT ![t.chat] = FlowStep(@, t)]
                    ELSE flow
       /\ paid' = PaidAtResolve(paid, t)
       /\ UNCHANGED <<store, carts, probe>>

Update(s) == [kind |-> turns[s].kind, text |-> turns[s].text]

\* await state_handler(update, context): the handler registered for the
\* resolved state runs to its return or to the exception that escapes it
Dispatch(s, h, result) ==
  /\ turns' = [turns EXCEPT ![s] =
                 [@ EXCEPT !.pc = result.pc, !.ret = result.ret, !.handler = h,
                           !.calls = @ \o result.calls]]
  /\ carts' = [carts EXCEPT ![turns[s].chat] = IF result.created THEN @ + 1 ELSE @]
  /\ paid' = PaidAtDispatch(paid, turns[s].chat, result)
  /\ UNCHANGED <<store, queue, flow, probe>>

Ready(s, h) == turns[s].pc = "resolved" /\ states[turns[s].user_state] = h

DispatchStart ==
  \E s \in Slots :
     /\ Ready(s, "start")
     /\ \E result \in {start(Update(s), o) : o \in StartOutcomes} :
          Dispatch(s, "start", result)

DispatchMenu ==
  \E s \in Slots :
     /\ Ready(s, "handle_menu")
     /\ \E result \in {handle_menu(Update(s), o) : o \in MenuOutcomes} :
          Dispatch(s, "handle_menu", result)

DispatchDescription ==
  \E s \in Slots :
     /\ Ready(s, "handle_description")
     /\ \E result \in {handle_description(Update(s), o, carts[turns[s].chat]) :
                         o \in DescriptionOutcomes} :
          Dispatch(s, "handle_description", result)

DispatchCart ==
  \E s \in Slots :
     /\ Ready(s, "handle_cart")
     /\ \E result \in {handle_cart(Update(s), o) : o \in CartOutcomes} :
          Dispatch(s, "handle_cart", result)

DispatchEmail ==
  \E s \in Slots :
     /\ Ready(s, "handle_email")
     /\ \E result \in {handle_email(Update(s), o) : o \in EmailOutcomes} :
          Dispatch(s, "handle_email", result)

\* the turn ends: the store write after a handler that returned (the write
\* itself may fail), or the except clause after one that raised
Finish(s, set_ok) ==
  LET t == turns[s]
      done == [t EXCEPT !.pc = "end",
                        !.outcome = IF t.pc = "raised" THEN "handler_raised"
                                    ELSE IF set_ok THEN "persisted"
                                    ELSE "write_failed",
                        !.calls = IF t.pc = "raised" THEN @
                                  ELSE @ \o <<Call("redis.set", OkErr(set_ok))>>]
  IN  /\ store' = store_after_turn(store, t, set_ok)
      /\ turns' = [turns EXCEPT ![s] = done]
      /\ flow' = [flow EXCEPT ![t.chat] = FlowStep(@, done)]
      /\ paid' = PaidAtFinish(paid, t, set_ok)
      /\ UNCHANGED <<queue, carts, probe>>

Persist ==
  \E s \in Slots : /\ turns[s].pc = "returned"
                   /\ \E set_ok \in BOOLEAN : Finish(s, set_ok)

Caught ==
  \E s \in Slots : /\ turns[s].pc = "raised"
                   /\ Finish(s, FALSE)

Next ==
  \/ \E c \in Chats : Deliver(c)
  \/ Resolve
  \/ DispatchStart
  \/ DispatchMenu
  \/ DispatchDescription
  \/ DispatchCart
  \/ DispatchEmail
  \/ Persist
  \/ Caught

Spec == Init /\ [][Next]_vars

\* The controller with the payment history of one chat followed, and the
\* shopping scenario not.  The chats are interchangeable: what holds of the
\* followed chat among the others holds of each.
InitPay ==
  /\ store = [c \in Chats |-> None]
  /\ queue = <<>>
  /\ turns = [s \in Slots |-> Idle]
  /\ carts = [c \in Chats |-> 0]
  /\ flow = [c \in Chats |-> FlowUnfollowed]
  /\ paid = [c \in Chats |-> IF c = 1 THEN "no" ELSE "void"]
  /\ probe = NoProbe

SpecPay == InitPay /\ [][Next]_vars


(* ---------------------- email validation alone ------------------------ *)
\* The validation of handle_email applied to texts over a small alphabet: a
\* letter, a digit, the two separators, a character that is neither
\* alphanumeric nor a separator, and two kinds of whitespace.
MaxEmailLen == 6

EmailAlphabet == {"a", "1", "@", ".", "-", " ", "\n"}

RECURSIVE Join(_)
Join(chars) == IF chars = <<>> THEN "" ELSE Head(chars) \o Join(Tail(chars))

EmailInputs ==
  {Join(f) : f \in UNION {[1..n -> EmailAlphabet] : n \in 0..MaxEmailLen}}
    \cup {"a@b.c", "a@b", "", "a b@c.d"}

\* handle_email, the two checks on the stripped text: "if not text" and
\* "if not re.match(...)"
email_accepted(text) == text # "" /\ re_match_email(text)

ControllerInit ==
  /\ store = [c \in Chats |-> None]
  /\ queue = <<>>
  /\ turns = [s \in Slots |-> Idle]
  /\ carts = [c \in Chats |-> 0]
  /\ flow = [c \in Chats |-> FlowOff]
  /\ paid = [c \in Chats |-> "void"]

InitEmail ==
  /\ ControllerInit
  /\ probe \in {[fn |-> "email", raw |-> r, text |-> "", done |-> FALSE,
                 accepted |-> FALSE] : r \in EmailInputs}

\* text = update.message.text.strip(), then the two checks
ValidateEmail ==
  /\ probe.fn = "email"
  /\ ~probe.done
  /\ probe' = [probe EXCEPT !.text = strip(probe.raw), !.done = TRUE,
                            !.accepted = email_accepted(strip(probe.raw))]
  /\ UNCHANGED <<store, queue, turns, carts, flow, paid>>

SpecEmail == InitEmail /\ [][ValidateEmail]_vars

(* ------------------------ cart message alone -------------------------- *)
\* _format_cart_message applied to lists of cart items.  An optional price
\* is <<>> (None) or <<p>>.  Amounts are floats with one decimal, held in
\* tenths: Decimal(str(amount)) of 0.5, 1.0, 2.0 is 5, 10, 20 tenths, and a
\* price times an amount is a Decimal with one decimal, held in tenths too.
MaxItems == 3

Titles == {"A", "B"}

AmountsInTenths == {5, 10, 20}

Prices == {<<>>, <<0>>, <<100>>}

CartItem == [title : Titles, amount : AmountsInTenths, price : Prices]

CartInputs == UNION {[1..n -> CartItem] : n \in 0..MaxItems}

\* line_total = item.price * Decimal(str(amount))
line_total(item) == item.price[1] * item.amount

\* (variant) the running total is replaced by the line's, not added to
add_line_overwrites(total, line) == <<line>>

\* total = line_total if total is None else total + line_total
add_line(total, line) == IF total = <<>> THEN <<line>> ELSE <<total[1] + line>>

\* the line of one item: with the price arithmetic, or title and amount only
item_line(item) ==
  IF item.price # <<>>
    THEN [kind |-> "priced", title |-> item.title, amount |-> item.amount,
          price |-> item.price[1], line_total |-> line_total(item)]
  ELSE [kind |-> "plain", title |-> item.title, amount |-> item.amount]

\* (variant) the total line is written "if total:", which a zero total fails
total_lines_if_truthy(total) ==
  IF total # <<>> /\ total[1] # 0 THEN <<[kind |-> "total", total |-> total[1]]>> ELSE <<>>

\* if total is not None: lines.append(total line)
total_lines(total) ==
  IF total # <<>> THEN <<[kind |-> "total", total |-> total[1]]>> ELSE <<>>

\* the for loop: the item lines and the running total
RECURSIVE cart_loop(_, _, _)
cart_loop(items, lines, total) ==
  IF items = <<>> THEN [lines |-> lines, total |-> total]
  ELSE LET item == Head(items)
       IN  cart_loop(Tail(items), Append(lines, item_line(item)),
                     IF item.price # <<>> THEN add_line(total, line_total(item))
                     ELSE total)

format_cart_message(items) ==
  IF items = <<>> THEN <<[kind |-> "empty"]>>
  ELSE LET done == cart_loop(items, <<[kind |-> "header"]>>, <<>>)
       IN  done.lines \o total_lines(done.total)

InitCart ==
  /\ ControllerInit
  /\ probe \in {[fn |-> "cart", items |-> items, done |-> FALSE, out |-> <<>>] :
                  items \in CartInputs}

FormatCart ==
  /\ probe.fn = "cart"
  /\ ~probe.done
  /\ probe' = [probe EXCEPT !.done = TRUE, !.out = format_cart_message(probe.items)]
  /\ UNCHANGED <<store, queue, turns, carts, flow, paid>>

SpecCart == InitCart /\ [][FormatCart]_vars

(* ============================ properties ============================== *)
Ended(s) == turns[s].pc = "end"

HandlerRan(s) == turns[s].handler # ""

HandlerReturned(s) == HandlerRan(s) /\ turns[s].ret # None

Res(s, op) == {turns[s].calls[i].res : i \in Made(turns[s].calls, op)}

\* C1: a turn whose handler raised made no store write, and the chat's
\* persisted state after it is the one it had before the turn; this includes
\* turns whose state was forced by the event.
C1_RaisedTurnKeepsState ==
  \A s \in Slots :
     (Ended(s) /\ turns[s].outcome = "handler_raised")
       => /\ store[turns[s].chat] = turns[s].before
          /\ Made(turns[s].calls, "redis.set") = {}

C1_Witness ==
  \E s \in Slots :
     /\ Ended(s)
     /\ turns[s].outcome = "handler_raised"
     /\ turns[s].forced
     /\ turns[s].before \in BotState
     /\ turns[s].before # turns[s].user_state

\* C2: after every turn that completed successfully the value persisted for
\* the chat is the state its handler returned (not the previous value, not
\* the resolved state).
C2_PersistedIsReturned ==
  \A s \in Slots :
     (Ended(s) /\ turns[s].outcome = "persisted")
       => /\ turns[s].ret \in BotState
          /\ store[turns[s].chat] = turns[s].ret

C2_Witness ==
  \E s \in Slots :
     /\ Ended(s)
     /\ turns[s].outcome = "persisted"
     /\ turns[s].before \in BotState
     /\ turns[s].ret # turns[s].before
     /\ turns[s].ret # turns[s].user_state
     /\ store[turns[s].chat] = turns[s].ret

\* C3: whatever the store holds for the chat, "/start" is dispatched to the
\* START handler, "back_to_menu" to the HANDLE_DESCRIPTION handler, "my_cart"
\* and "remove_item:..." to the HANDLE_CART handler and "pay" to the
\* WAITING_EMAIL handler.
ForcedHandler(text) ==
  IF text = "/start" THEN "start"
  ELSE IF text = "back_to_menu" THEN "handle_description"
  ELSE IF text \in {"my_cart", "remove_item:i1"} THEN "handle_cart"
  ELSE IF text = "pay" THEN "handle_email"
  ELSE ""

C3_ForcedEventsIgnoreStore ==
  \A s \in Slots :
     (HandlerRan(s) /\ ForcedHandler(turns[s].text) # "")
       => turns[s].handler = ForcedHandler(turns[s].text)

C3_Witness ==
  \E s \in Slots :
     /\ HandlerRan(s)
     /\ turns[s].text = "back_to_menu"
     /\ turns[s].before = WAITING_EMAIL
     /\ turns[s].handler = "handle_description"

\* C4: no two turns of one chat are in progress together, and between a
\* turn's state resolution and its end the chat's persisted state is the one
\* the turn started from (nobody else wrote it).
C4_TurnsOfAChatAreSerial ==
  /\ \A s1, s2 \in Slots :
        (s1 # s2 /\ Busy(s1) /\ Busy(s2)) => turns[s1].chat # turns[s2].chat
  /\ \A s \in Slots : Busy(s) => store[turns[s].chat] = turns[s].before

C4_Witness ==
  \E s \in Slots :
     /\ turns[s].pc = "returned"
     /\ turns[s].ret # turns[s].before
     /\ queue # <<>>
     /\ Head(queue) = turns[s].chat

\* C5: a step changes the persisted state of a chat only as the store write
\* of a turn of that chat, and the state a turn resolves to is a function of
\* its event and of its own chat's entry.
C5_OnlyOwnEntryWritten ==
  \A c \in Chats :
     store'[c] # store[c]
       => \E s \in Slots : /\ turns[s].chat = c
                           /\ turns[s].pc = "returned"
                           /\ turns'[s].pc = "end"

C5_OwnEntryResolves ==
  \A s \in Slots :
     turns[s].user_state # None
       => turns[s].user_state =
            IF turns[s].text = "/start" THEN START
            ELSE IF turns[s].text = "back_to_menu" THEN HANDLE_DESCRIPTION
            ELSE IF turns[s].text \in {"my_cart", "remove_item:i1"} THEN HANDLE_CART
            ELSE IF turns[s].text = "pay" THEN WAITING_EMAIL
            ELSE IF turns[s].before = None THEN START
            ELSE turns[s].before

C5_TurnsAreFramed == [][C5_OnlyOwnEntryWritten]_vars /\ []C5_OwnEntryResolves

C5_Witness ==
  \E s \in Slots, c \in Chats :
     /\ Ended(s)
     /\ turns[s].outcome = "persisted"
     /\ ~turns[s].forced
     /\ c # turns[s].chat
     /\ store[c] \in BotState
     /\ store[c] # turns[s].before
     /\ store[c] # store[turns[s].chat]

\* C6: a chat that sends "/start", a product id, "add_to_cart:<id>",
\* "my_cart", "pay" and a valid email, every call of these turns succeeding
\* on a non-empty catalog, is persisted as HANDLE_MENU, HANDLE_DESCRIPTION,
\* HANDLE_DESCRIPTION, HANDLE_CART, WAITING_EMAIL, START in turn, with one
\* add-to-cart call and one customer submission in all.
Expected ==
  <<HANDLE_MENU, HANDLE_DESCRIPTION, HANDLE_DESCRIPTION, HANDLE_CART, WAITING_EMAIL, START>>

C6_LinearFlow ==
  \A c \in Chats :
     flow[c].on
       => /\ flow[c].k \in 1..Len(Scenario)
          /\ store[c] = Expected[flow[c].k]
          /\ flow[c].k < 3 => flow[c].adds = 0
          /\ flow[c].k >= 3 => flow[c].adds = 1
          /\ flow[c].k < Len(Scenario) => flow[c].subs = 0
          /\ flow[c].k = Len(Scenario) => flow[c].subs = 1

C6_Witness ==
  \E c \in Chats : flow[c].on /\ flow[c].k = Len(Scenario) /\ store[c] = START

\* C7: the START handler run on a message answers an empty product list (an
\* empty catalog or a failed request) with START and a non-empty one with
\* HANDLE_MENU, and a "/start" turn that completes persists that state.
C7_StartFollowsCatalog ==
  \A s \in Slots :
     (turns[s].handler = "start" /\ turns[s].kind = "message")
       => LET next == IF Res(s, "get_products") = {"nonempty"}
                        THEN HANDLE_MENU ELSE START
          IN  /\ Cardinality(Made(turns[s].calls, "get_products")) = 1
              /\ Res(s, "reply_text") = {"ok"} => turns[s].ret = next
              /\ turns[s].ret \in {None, next}
              /\ turns[s].outcome = "persisted" => store[turns[s].chat] = next

C7_Witness ==
  \E s \in Slots :
     /\ turns[s].handler = "start"
     /\ turns[s].text = "/start"
     /\ turns[s].before = None
     /\ Res(s, "get_products") = {"error"}
     /\ turns[s].outcome = "persisted"
     /\ store[turns[s].chat] = START

\* C8: in HANDLE_MENU a button press whose product lookup fails is answered
\* with the error text and leaves the chat persisted as HANDLE_MENU; the
\* chat becomes HANDLE_DESCRIPTION only after the product was fetched and
\* its detail message sent.
C8_MenuLookupFailureStays ==
  \A s \in Slots :
     turns[s].handler = "handle_menu"
       => /\ (Res(s, "get_product") \cap {"not_found", "error"} # {})
               => /\ Made(turns[s].calls, "edit_message_text") # {}
                  /\ Res(s, "edit_message_text") = {"ok"} => turns[s].ret = HANDLE_MENU
                  /\ turns[s].ret \in {None, HANDLE_MENU}
                  /\ store[turns[s].chat] = HANDLE_MENU
          /\ turns[s].ret = HANDLE_DESCRIPTION
               => /\ Res(s, "get_product") = {"ok"}
                  /\ Res(s, "send_photo") \cup Res(s, "send_message") = {"ok"}

C8_Witness ==
  \E s \in Slots :
     /\ turns[s].handler = "handle_menu"
     /\ turns[s].text = "p1"
     /\ Res(s, "get_product") = {"not_found"}
     /\ Res(s, "edit_message_text") = {"ok"}
     /\ turns[s].outcome = "persisted"
     /\ store[turns[s].chat] = HANDLE_MENU

\* C9: a chat persisted as HANDLE_CART is still HANDLE_CART after every turn
\* of it, completed or failed, whose event is none of "/start",
\* "back_to_menu" and "pay".
CartExits == {"/start", "back_to_menu", "pay"}

C9_CartIsLeftOnlyByForcedEvents ==
  \A s \in Slots :
     (Ended(s) /\ turns[s].before = HANDLE_CART
        /\ (turns[s].kind = "edited_message" \/ turns[s].text \notin CartExits))
       => store[turns[s].chat] = HANDLE_CART

C9_Witness ==
  \E s \in Slots :
     /\ Ended(s)
     /\ turns[s].before = HANDLE_CART
     /\ turns[s].text = "remove_item:i1"
     /\ Res(s, "delete_cart_item") = {"error"}
     /\ Res(s, "get_cart_items") = {"error"}
     /\ turns[s].outcome = "persisted"
     /\ store[turns[s].chat] = HANDLE_CART

\* C10: the WAITING_EMAIL handler submits no customer and answers
\* WAITING_EMAIL for an event without text and for blank or malformed text;
\* for a well-formed address it submits one customer and, the submission
\* failing or not, sends the confirmation and answers START.
WellFormed == {"a@b.c"}

C10_EmailHandler ==
  \A s \in Slots :
     turns[s].handler = "handle_email"
       => LET valid == turns[s].kind = "message" /\ turns[s].text \in WellFormed
              sent == Res(s, "send_prompt") \cup Res(s, "send_invalid")
                        \cup Res(s, "send_thanks")
          IN  /\ ~valid => /\ Made(turns[s].calls, "add_customer") = {}
                           /\ Made(turns[s].calls, "send_thanks") = {}
                           /\ sent = {"ok"} => turns[s].ret = WAITING_EMAIL
                           /\ turns[s].ret \in {None, WAITING_EMAIL}
              /\ valid => /\ Cardinality(Made(turns[s].calls, "add_customer")) = 1
                          /\ Made(turns[s].calls, "send_thanks") # {}
                          /\ sent = {"ok"} => turns[s].ret = START
                          /\ turns[s].ret \in {None, START}

C10_Witness ==
  \E s \in Slots :
     /\ turns[s].handler = "handle_email"
     /\ turns[s].text = "a@b.c"
     /\ Res(s, "add_customer") = {"error"}
     /\ Res(s, "send_thanks") = {"ok"}
     /\ turns[s].ret = START


\* C11: the validation accepts a stripped text exactly when it contains no
\* whitespace and exactly one "@", the part before the "@" is not empty, a
\* "." follows the "@" with something in between, and what follows the last
\* "." is one or more letters or digits; "a@b.c" is accepted, "a@b", "" and
\* "a b@c.d" are rejected.
Positions(s, ch) == {i \in 1..Len(s) : Ch(s, i) = ch}

IsLocalAtDomainTld(s) ==
  /\ \A i \in 1..Len(s) : Ch(s, i) \notin Whitespace
  /\ Cardinality(Positions(s, "@")) = 1
  /\ Positions(s, ".") # {}
  /\ LET at == CHOOSE i \in Positions(s, "@") : TRUE
         dot == CHOOSE i \in Positions(s, ".") : \A j \in Positions(s, ".") : j <= i
     IN  /\ at > 1
         /\ dot > at + 1
         /\ dot < Len(s)
         /\ \A i \in (dot + 1)..Len(s) : Ch(s, i) \in Alnum

C11_EmailValidation ==
  (probe.fn = "email" /\ probe.done)
    => /\ probe.accepted <=> IsLocalAtDomainTld(probe.text)
       /\ probe.raw = "a@b.c" => probe.accepted
       /\ probe.raw \in {"a@b", "", "a b@c.d"} => ~probe.accepted

C11_Witness ==
  /\ probe.fn = "email"
  /\ probe.done
  /\ probe.raw = " a@-.1"
  /\ probe.text = "a@-.1"
  /\ probe.accepted


\* C12: the total of the cart message is the sum of price x amount over the
\* items with a known price; an item without a price is listed with title
\* and amount only and adds nothing; (A, 2.0, 100), (B, 1.0, no price)
\* totals 200.
Formatted == probe.fn = "cart" /\ probe.done

Known(items) == {i \in 1..Len(items) : items[i].price # <<>>}

RECURSIVE SumOver(_, _)
SumOver(items, idx) ==
  IF idx = {} THEN 0
  ELSE LET i == CHOOSE j \in idx : TRUE
       IN  items[i].price[1] * items[i].amount + SumOver(items, idx \ {i})

TotalLines(out) == {i \in 1..Len(out) : out[i].kind = "total"}

ExampleCart ==
  << [title |-> "A", amount |-> 20, price |-> <<100>>],
     [title |-> "B", amount |-> 10, price |-> <<>>] >>

C12_TotalIsSumOfKnownPrices ==
  Formatted
    => /\ \A i \in TotalLines(probe.out) :
             probe.out[i].total = SumOver(probe.items, Known(probe.items))
       /\ \A i \in 1..Len(probe.items) :
             probe.items[i].price = <<>>
               => probe.out[i + 1] = [kind |-> "plain", title |-> probe.items[i].title,
                                      amount |-> probe.items[i].amount]
       /\ probe.items = ExampleCart
             => /\ Len(probe.out) = 4
                /\ probe.out[4] = [kind |-> "total", total |-> 2000]

C12_Witness ==
  /\ Formatted
  /\ probe.items = << [title |-> "A", amount |-> 20, price |-> <<100>>],
                      [title |-> "B", amount |-> 10, price |-> <<>>],
                      [title |-> "A", amount |-> 5, price |-> <<100>>] >>
  /\ probe.out[5] = [kind |-> "total", total |-> 2500]

\* C13: the cart message has a total line exactly when some item has a
\* known price; an empty list gives the empty-cart message alone; a list of
\* items none of which has a price gives the item lines and no total line.
C13_TotalLineIffKnownPrice ==
  Formatted
    => /\ Cardinality(TotalLines(probe.out)) =
            (IF Known(probe.items) # {} THEN 1 ELSE 0)
       /\ TotalLines(probe.out) \subseteq {Len(probe.out)}
       /\ probe.items = <<>> => probe.out = <<[kind |-> "empty"]>>
       /\ probe.items # <<>>
            => /\ probe.out[1].kind = "header"
               /\ Len(probe.out) = 1 + Len(probe.items) + Cardinality(TotalLines(probe.out))
               /\ \A i \in 1..Len(probe.items) :
                     probe.out[i + 1].kind \in {"priced", "plain"}

C13_Witness ==
  /\ Formatted
  /\ probe.items = << [title |-> "B", amount |-> 10, price |-> <<>>],
                      [title |-> "A", amount |-> 5, price |-> <<0>>] >>
  /\ probe.out[4] = [kind |-> "total", total |-> 0]


\* C14: every chat has no stored entry or one stored value, a name of
\* BotState; every name of BotState has a registered handler; so a turn
\* that resolves its state from the store decodes the entry to a state of
\* BotState and finds its handler.
HandlerNames == {"start", "handle_menu", "handle_description", "handle_cart", "handle_email"}

ReadStore(s) == turns[s].pc # "idle" /\ Res(s, "redis.get") = {"ok"}

C14_StoredValueIsAStateName ==
  /\ \A c \in Chats : store[StoreKey(c)] \in BotState \cup {None}
  /\ DOMAIN states = BotState
  /\ \A st \in BotState : states[st] \in HandlerNames
  /\ \A s \in Slots :
       ReadStore(s)
         => /\ turns[s].before \in BotState \cup {None}
            /\ turns[s].user_state \in BotState
            /\ turns[s].before \in BotState => turns[s].user_state = turns[s].before
            /\ HandlerRan(s) => turns[s].handler = states[turns[s].user_state]

C14_Witness ==
  \E s \in Slots :
     /\ Ended(s)
     /\ ReadStore(s)
     /\ turns[s].before = HANDLE_CART
     /\ turns[s].handler = "handle_cart"
     /\ store[turns[s].chat] = HANDLE_CART


\* C15: the backend holds at most one cart per chat; a cart is created only
\* by the turn of an add-to-cart press of that chat, in ensure_cart, after
\* the lookup by chat id reported no cart; no other turn creates a cart.
CreatesCartFor(c) ==
  \E s \in Slots :
     /\ turns[s].chat = c
     /\ turns[s].pc = "resolved"
     /\ turns[s].kind = "callback_query"
     /\ startswith(turns[s].text, "add_to_cart:")
     /\ turns'[s].handler = "handle_description"
     /\ {turns'[s].calls[i].res :
           i \in Made(turns'[s].calls, "get_cart_by_telegram_id")} = {"absent"}
     /\ Made(turns'[s].calls, "create_cart") # {}

OneCartPerChat ==
  /\ \A c \in Chats : carts[c] <= 1
  /\ \A s \in Slots :
       Made(turns[s].calls, "create_cart") # {}
         => /\ turns[s].handler = "handle_description"
            /\ startswith(turns[s].text, "add_to_cart:")
            /\ Res(s, "get_cart_by_telegram_id") = {"absent"}
            /\ Cardinality(Made(turns[s].calls, "create_cart")) = 1

C15_CartsMadeOnlyByAddToCart ==
  /\ []OneCartPerChat
  /\ [][\A c \in Chats :
          carts'[c] # carts[c]
            => /\ carts[c] = 0
               /\ carts'[c] = 1
               /\ CreatesCartFor(c)]_vars

C15_Witness ==
  \E s \in Slots :
     /\ Ended(s)
     /\ startswith(turns[s].text, "add_to_cart:")
     /\ Res(s, "get_cart_by_telegram_id") = {"found"}
     /\ Made(turns[s].calls, "create_cart") = {}
     /\ carts[turns[s].chat] = 1


\* C16: a turn of one chat suspended at an external call does not block the
\* other chats: while it is suspended, an update of another chat waiting at
\* the head of the update queue can be taken and resolved.
Suspended(s) == Busy(s)

C16_SuspendedTurnBlocksNoOtherChat ==
  \A s \in Slots :
     (Suspended(s) /\ queue # <<>> /\ Head(queue) # turns[s].chat)
       => ENABLED Resolve


\* C17: in handle_description a press of "add_to_cart:..." makes one attempt
\* to add the product to the cart, sends an acknowledgment only (no message
\* sent, none deleted) and returns HANDLE_DESCRIPTION whether the add
\* succeeded or failed; every other press returns HANDLE_MENU, with a
\* non-empty and with an empty catalog.  The handler returns nothing only
\* when a request to the chat transport failed.
DescriptionTransport == {"answer_added", "answer_failed", "answer", "send_message", "delete_message"}

TransportFailed(s) ==
  \E i \in 1..Len(turns[s].calls) :
     turns[s].calls[i].op \in DescriptionTransport /\ turns[s].calls[i].res = "error"

C17_DescriptionHandler ==
  \A s \in Slots :
     (HandlerRan(s) /\ turns[s].handler = "handle_description"
                    /\ turns[s].kind = "callback_query")
       => IF startswith(turns[s].text, "add_to_cart:")
            THEN /\ Cardinality(Made(turns[s].calls, "add_product_to_cart")) = 1
                 /\ Made(turns[s].calls, "send_message") = {}
                 /\ Made(turns[s].calls, "delete_message") = {}
                 /\ Made(turns[s].calls, "get_products") = {}
                 /\ turns[s].ret \in {HANDLE_DESCRIPTION, None}
                 /\ turns[s].ret = None => Res(s, "answer_failed") = {"error"}
                 /\ Res(s, "add_product_to_cart") = {"ok"} /\ Res(s, "answer_added") = {"ok"}
                      => Made(turns[s].calls, "answer_failed") = {}
                 /\ Res(s, "add_product_to_cart") = {"error"}
                      => Made(turns[s].calls, "answer_added") = {}
            ELSE /\ Made(turns[s].calls, "add_product_to_cart") = {}
                 /\ Cardinality(Made(turns[s].calls, "get_products")) = 1
                 /\ turns[s].ret \in {HANDLE_MENU, None}
                 /\ turns[s].ret = None => TransportFailed(s)
                 /\ NoProducts(CHOOSE r \in Res(s, "get_products") : TRUE)
                      => Made(turns[s].calls, "send_message") = {}

C17_Witness ==
  \E s \in Slots :
     /\ Ended(s)
     /\ turns[s].handler = "handle_description"
     /\ turns[s].text = "add_to_cart:p1"
     /\ Res(s, "add_product_to_cart") = {"error"}
     /\ Res(s, "answer_failed") = {"ok"}
     /\ turns[s].ret = HANDLE_DESCRIPTION
     /\ store[turns[s].chat] = HANDLE_DESCRIPTION


\* C18: a failed delete-message request is swallowed in every handler that
\* deletes the previous message: the handler returns the state it returns
\* when the deletion succeeds (HANDLE_DESCRIPTION from handle_menu,
\* HANDLE_MENU from handle_description, HANDLE_CART from handle_cart), and
\* the turn goes on to write that state to the store.
AfterDeletion(h) ==
  IF h = "handle_menu" THEN HANDLE_DESCRIPTION
  ELSE IF h = "handle_description" THEN HANDLE_MENU
  ELSE HANDLE_CART

C18_FailedDeletionIsSwallowed ==
  \A s \in Slots :
     (HandlerRan(s) /\ Res(s, "delete_message") = {"error"})
       => /\ turns[s].ret = AfterDeletion(turns[s].handler)
          /\ Ended(s) => Made(turns[s].calls, "redis.set") # {}
          /\ (Ended(s) /\ Res(s, "redis.set") = {"ok"})
               => store[turns[s].chat] = AfterDeletion(turns[s].handler)


\* C19: a turn reads the store at most once; a turn of a forced event
\* ("/start", "back_to_menu", "my_cart", "remove_item:...", "pay") reads it
\* not at all, a turn of any other message or press reads the chat's entry
\* exactly once, and an absent entry resolves to START.
IsForcedEvent(text) ==
  \/ text \in {"/start", "back_to_menu", "my_cart", "pay"}
  \/ startswith(text, "remove_item:")

C19_StoreReadOncePerUnforcedTurn ==
  \A s \in Slots :
     turns[s].kind \in {"message", "callback_query"}
       => LET reads == Made(turns[s].calls, "redis.get")
          IN  IF IsForcedEvent(turns[s].text)
                THEN reads = {}
              ELSE /\ Cardinality(reads) = 1
                   /\ reads = {1}
                   /\ (Res(s, "redis.get") = {"ok"} /\ turns[s].before = None)
                        => turns[s].user_state = START

C19_Witness ==
  \E s \in Slots :
     /\ Ended(s)
     /\ turns[s].text = "my_cart"
     /\ turns[s].before = HANDLE_MENU
     /\ turns[s].handler = "handle_cart"
     /\ Made(turns[s].calls, "redis.get") = {}


\* C20: an event whose kind does not fit the resolved handler changes no
\* persisted state: a press dispatched to start, and a text message
\* dispatched to handle_menu, handle_description or handle_cart, make the
\* handler raise before it replies, and the turn ends without a store write.
KindMismatch(s) ==
  \/ turns[s].handler = "start" /\ turns[s].kind = "callback_query"
  \/ /\ turns[s].handler \in {"handle_menu", "handle_description", "handle_cart"}
     /\ turns[s].kind = "message"

C20_KindMismatchChangesNothing ==
  \A s \in Slots :
     KindMismatch(s)
       => /\ turns[s].ret = None
          /\ turns[s].pc \in {"raised", "end"}
          /\ \A i \in 1..Len(turns[s].calls) :
                turns[s].calls[i].op \in {"redis.get", "get_products"}
          /\ Ended(s) => /\ turns[s].outcome = "handler_raised"
                         /\ store[turns[s].chat] = turns[s].before

C20_Witness ==
  \E s \in Slots :
     /\ Ended(s)
     /\ turns[s].kind = "message"
     /\ turns[s].text = "my_cart"
     /\ turns[s].handler = "handle_cart"
     /\ turns[s].before = HANDLE_MENU
     /\ store[turns[s].chat] = HANDLE_MENU


\* C21: with store writes succeeding, a customer is submitted only by a turn
\* resolved to WAITING_EMAIL on a text message that has the form of an
\* email, never by a "pay" event; so every submission of a chat comes after
\* a "pay" event of that chat, and between two submissions of a chat there
\* is another "pay" event.
SubmittedIn(calls) == Made(calls, "add_customer") # {}

SubmissionInEmailTurn ==
  \A s \in Slots :
     SubmittedIn(turns[s].calls)
       => /\ turns[s].handler = "handle_email"
          /\ turns[s].user_state = WAITING_EMAIL
          /\ turns[s].kind = "message"
          /\ turns[s].text # "pay"
          /\ IsLocalAtDomainTld(strip(turns[s].text))
          /\ Cardinality(Made(turns[s].calls, "add_customer")) = 1

Submits(c) ==
  \E s \in Slots :
     /\ turns[s].chat = c
     /\ ~SubmittedIn(turns[s].calls)
     /\ SubmittedIn(turns'[s].calls)

C21_SubmissionFollowsPay ==
  /\ []SubmissionInEmailTurn
  /\ [][\A c \in Chats : Submits(c) => paid[c] \in {"yes", "void"}]_vars

\* C21 as amended: ... and between two submissions of a chat there is
\* another "pay" event, unless the turn of the earlier submission raised
\* after submitting (the thanks message could not be sent) and so wrote no
\* state.
C21_SubmissionFollowsPayOrFailedTurn ==
  /\ []SubmissionInEmailTurn
  /\ [][\A c \in Chats : Submits(c) => paid[c] \in {"yes", "retry", "void"}]_vars

C21_Witness ==
  \E s \in Slots :
     /\ Ended(s)
     /\ SubmittedIn(turns[s].calls)
     /\ turns[s].outcome = "persisted"
     /\ turns[s].before = WAITING_EMAIL
     /\ store[turns[s].chat] = START
     /\ paid[turns[s].chat] = "no"

====
